---- MODULE Spec2Model ----
(***************************************************************************)
(* Model of the installer packager (main.go): handler -> invoke, the       *)
(* sequential build loop, and the goroutine-per-artifact upload fan-out    *)
(* joined by a sync.WaitGroup.                                             *)
(*                                                                         *)
(* Errors are modelled by their message, a sequence of tokens built as     *)
(* fmt.Errorf builds it (prefix, then the wrapped error); NoErr is nil.    *)
(* A file path is a sequence of segments, the last one the basename.       *)
(***************************************************************************)
EXTENDS Integers, Sequences, FiniteSets, TLC

\* ------------------------------------------------------------- bounds
\* longest "packages" list of a request
MaxPackages == 2

\* longest "packages" list of a request when the other fields vary as well
MaxPackagesWide == 1

\* ------------------------------------------------------------- inputs
Recognised == {"deb", "rpm", "pkg", "msi"}

\* the tags a request may carry: the four the switch knows and one it does not
Tags == Recognised \cup {"exe"}

TeamNames == {"t1"}

RECURSIVE SeqsUpTo(_, _)
SeqsUpTo(S, n) ==
    IF n = 0 THEN {<< >>}
    ELSE LET shorter == SeqsUpTo(S, n - 1)
         IN  shorter \cup {Append(s, x) : s \in {t \in shorter : Len(t) = n - 1}, x \in S}

EnrollSecrets == {"test123"}

\* the zero value of CreateInstallersRequest
NoRequest == [TeamName |-> "", EnrollSecret |-> "", Packages |-> << >>]

\* CreateInstallersRequest as json.Unmarshal fills it
Requests ==
    [TeamName : TeamNames, EnrollSecret : EnrollSecrets,
     Packages : SeqsUpTo(Tags, MaxPackages)]

\* an APIGatewayProxyRequest: a body that parses into a request, or one that does not
Events ==
    [wellFormed : {TRUE}, request : Requests]
    \cup [wellFormed : {FALSE}, request : {NoRequest}]

\* requests whose team name and enroll secret vary too (the secret may be
\* the very one the control plane holds for the team), with shorter lists
TeamNamesWide == {"t1", "t2"}

EnrollSecretsWide == {"test123", "s1"}

RequestsWide ==
    [TeamName : TeamNamesWide, EnrollSecret : EnrollSecretsWide,
     Packages : SeqsUpTo(Tags, MaxPackagesWide)]

EventsWide ==
    [wellFormed : {TRUE}, request : RequestsWide]
    \cup [wellFormed : {FALSE}, request : {NoRequest}]

NoErr == << >>

\* fmt.Errorf("<prefix>: %w", err)
Wrap(prefix, err) == <<prefix>> \o err

\* ------------------------------------------------------------- respondError
\* json.Marshal of map[string]string{"error": msg}: never fails for a string map
JsonMarshal(msg) == <<"{", "\"error\"", ":">> \o msg \o <<"}">>

StatusOK == 200

StatusInternalServerError == 500

respondErrorStatus200(err) ==
    [response |-> [StatusCode |-> StatusOK, Body |-> JsonMarshal(err)], err |-> err]

respondError(err) ==
    [response |-> [StatusCode |-> StatusInternalServerError, Body |-> JsonMarshal(err)],
     err |-> err]

\* the response invoke starts with and returns on success
HelloResponse == [StatusCode |-> StatusOK, Body |-> <<"\"Hello from Lambda!\"">>]

\* ------------------------------------------------------------- parseEventBody
parseEventBody(event) ==
    IF event.wellFormed
    THEN [request |-> event.request, err |-> NoErr]
    ELSE [request |-> NoRequest,
          err |-> Wrap("failed to parse event body", <<"invalid json">>)]

\* ------------------------------------------------------------- control plane
\* what the POST /api/latest/fleet/teams round trip can hand back:
\* a transport error, a structured API error (with or without entries), a
\* non-200 status without an error payload, or a team with its secrets
NoApiErr == [set |-> FALSE, Message |-> "", Errors |-> << >>]

CPOutcomes ==
    { [err |-> <<"dial tcp: connection refused">>, apiErr |-> NoApiErr, status |-> 0,
       secrets |-> << >>],
      [err |-> NoErr,
       apiErr |-> [set |-> TRUE, Message |-> "Validation Failed",
                   Errors |-> << [Name |-> "name", Reason |-> "already exists"] >>],
       status |-> 422, secrets |-> << >>],
      [err |-> NoErr,
       apiErr |-> [set |-> TRUE, Message |-> "Internal", Errors |-> << >>],
       status |-> 500, secrets |-> << >>],
      [err |-> NoErr, apiErr |-> NoApiErr, status |-> 201, secrets |-> <<"s1">>],
      [err |-> NoErr, apiErr |-> NoApiErr, status |-> 200, secrets |-> <<"s1", "s2">>],
      [err |-> NoErr, apiErr |-> NoApiErr, status |-> 200, secrets |-> << >>] }

StatusText(code) ==
    CASE code = 0   -> "0"
      [] code = 200 -> "200"
      [] code = 201 -> "201"
      [] code = 422 -> "422"
      [] OTHER      -> "500"

\* messages := make([]string, len(err.Errors)) followed by one append per entry
errorFromAPIError(apiErr) ==
    IF apiErr.set /\ Len(apiErr.Errors) > 0
    THEN <<"api error", apiErr.Message, "messages">>
         \o [k \in 1..Len(apiErr.Errors) |-> ""]
         \o [k \in 1..Len(apiErr.Errors) |-> apiErr.Errors[k].Reason]
    ELSE <<"no api error defined">>

\* the three checks after the POST; NoErr when the request may go on
ControlPlaneErrorNoStatusCheck(cp) ==
    IF cp.err # NoErr THEN cp.err
    ELSE IF cp.apiErr.set THEN errorFromAPIError(cp.apiErr)
    ELSE NoErr

ControlPlaneError(cp) ==
    IF cp.err # NoErr THEN cp.err
    ELSE IF cp.apiErr.set THEN errorFromAPIError(cp.apiErr)
    ELSE IF cp.status # StatusOK
         THEN <<"unexpected api response status code", StatusText(cp.status)>>
    ELSE NoErr

\* ------------------------------------------------------------- builders
Base(format) ==
    CASE format = "deb" -> "fleet-osquery.deb"
      [] format = "rpm" -> "fleet-osquery.rpm"
      [] format = "pkg" -> "fleet-osquery.pkg"
      [] OTHER          -> "fleet-osquery.msi"

\* the directories the builders of one process may put their packages in:
\* the working directory (a bare file name comes back) or a subdirectory
OutDirs == { << >>, <<"build">> }

\* what one builder call can hand back: (path, nil) or ("", err)
BuilderResults(format, dir) ==
    {[path |-> dir \o <<Base(format)>>, err |-> NoErr],
     [path |-> << >>, err |-> <<"exit status 1">>]}

buildPackageSwallowingError(packageType, result) ==
    [pkg |-> result.path, err |-> NoErr]

buildPackageNoFormat(packageType, result) ==
    IF result.err # NoErr
    THEN [pkg |-> << >>, err |-> Wrap("failed to package", result.err)]
    ELSE [pkg |-> result.path, err |-> NoErr]

\* buildPackage(packageType, packagerFunc, options), given the builder's result
buildPackage(packageType, result) ==
    IF result.err # NoErr
    THEN [pkg |-> << >>, err |-> Wrap("failed to package", <<packageType>> \o result.err)]
    ELSE [pkg |-> result.path, err |-> NoErr]

\* ------------------------------------------------------------- object key
ObjectKeyBasename(name, file) == <<"teamName=", name, "/", file[Len(file)]>>

\* fmt.Sprintf("teamName=%s/%s", name, file)
ObjectKey(name, file) == <<"teamName=", name, "/">> \o file


\* ------------------------------------------------------------- state
VARIABLES
    event,       \* the inbound APIGatewayProxyRequest
    bucket,      \* os.Getenv("ARTIFACT_BUCKET") of the process
    outdir,      \* where the builders of this process put their packages
    scratch,     \* whether /tmp/build exists
    pc,          \* position of the goroutine running handler/invoke
    invoked,     \* handler has called invoke
    request,     \* installersRequest
    posts,       \* number of POST /api/latest/fleet/teams round trips
    cp,          \* what the team-creation round trip handed back
    mkdirs,      \* number of os.Mkdir("/tmp/build") calls
    options,     \* packaging.Options of the request
    idx,         \* index of the range loop the main goroutine is in
    installers,  \* the accumulated artifact paths
    calls,       \* every builder invocation so far, in order, with its result
    tasks,       \* the goroutines launched by the fan-out loop
    wg,          \* sync.WaitGroup state: counter v and waiters w
    sema,        \* the WaitGroup's semaphore
    crashed,     \* an unrecovered panic has ended the process
    out          \* what handler returned: [response, err]

vars == <<event, bucket, outdir, scratch, pc, invoked, request, posts, cp, mkdirs, options,
          idx, installers, calls, tasks, wg, sema, crashed, out>>

Buckets == {"", "artifacts"}

NoOptions == [EnrollSecret |-> "", Identifier |-> ""]

NoCP == [err |-> NoErr, apiErr |-> NoApiErr, status |-> 0, secrets |-> << >>]

NoOut == [response |-> [StatusCode |-> 0, Body |-> << >>], err |-> NoErr]

Init ==
    /\ event \in Events
    /\ bucket \in Buckets
    /\ outdir \in OutDirs
    /\ scratch \in {"absent", "present"}
    /\ pc = "parse"
    /\ invoked = FALSE
    /\ request = NoRequest
    /\ posts = 0
    /\ cp = NoCP
    /\ mkdirs = 0
    /\ options = NoOptions
    /\ idx = 1
    /\ installers = << >>
    /\ calls = << >>
    /\ tasks = << >>
    /\ wg = [v |-> 0, w |-> 0]
    /\ sema = 0
    /\ crashed = FALSE
    /\ out = NoOut

InitWide ==
    /\ event \in EventsWide
    /\ bucket \in Buckets
    /\ outdir \in OutDirs
    /\ scratch \in {"absent", "present"}
    /\ pc = "parse"
    /\ invoked = FALSE
    /\ request = NoRequest
    /\ posts = 0
    /\ cp = NoCP
    /\ mkdirs = 0
    /\ options = NoOptions
    /\ idx = 1
    /\ installers = << >>
    /\ calls = << >>
    /\ tasks = << >>
    /\ wg = [v |-> 0, w |-> 0]
    /\ sema = 0
    /\ crashed = FALSE
    /\ out = NoOut

\* ------------------------------------------------------------- handler
\* handler's last lines: an error from invoke goes through respondError again
HandlerResult(inv) ==
    IF inv.err # NoErr THEN respondError(inv.err)
    ELSE [response |-> inv.response, err |-> NoErr]

\* invoke returns inv to handler, and handler returns to the Lambda runtime
Return(inv) ==
    /\ pc' = "done"
    /\ out' = HandlerResult(inv)

\* handler: parseEventBody, then either the error response or the call of invoke
ParseIgnoringError ==
    /\ ~crashed
    /\ pc = "parse"
    /\ request' = parseEventBody(event).request
    /\ invoked' = TRUE
    /\ pc' = "post"
    /\ UNCHANGED <<event, bucket, outdir, scratch, posts, cp, mkdirs, options, idx,
                   installers, calls, tasks, wg, sema, crashed, out>>

Parse ==
    /\ ~crashed
    /\ pc = "parse"
    /\ LET parsed == parseEventBody(event)
       IN  IF parsed.err # NoErr
           THEN /\ out' = respondError(
                      Wrap("failed to parse generate installer request", parsed.err))
                /\ pc' = "done"
                /\ UNCHANGED <<request, invoked>>
           ELSE /\ request' = parsed.request
                /\ invoked' = TRUE
                /\ pc' = "post"
                /\ out' = out
    /\ UNCHANGED <<event, bucket, outdir, scratch, posts, cp, mkdirs, options, idx,
                   installers, calls, tasks, wg, sema, crashed>>

\* ------------------------------------------------------------- invoke
\* the team-creation POST and the three checks of its result
PostTeam ==
    /\ ~crashed
    /\ pc = "post"
    /\ \E got \in CPOutcomes :
         /\ posts' = posts + 1
         /\ cp' = got
         /\ IF ControlPlaneError(got) # NoErr
            THEN Return(respondError(ControlPlaneError(got)))
            ELSE /\ pc' = "mkdir"
                 /\ out' = out
    /\ UNCHANGED <<event, bucket, outdir, scratch, invoked, request, mkdirs, options, idx,
                   installers, calls, tasks, wg, sema, crashed>>

\* os.Mkdir("/tmp/build", 0755): creates the directory, or fails (already there,
\* or any other reason); the error is only logged
Mkdir ==
    /\ ~crashed
    /\ pc = "mkdir"
    /\ mkdirs' = mkdirs + 1
    /\ scratch' \in (IF scratch = "present" THEN {"present"} ELSE {"present", "absent"})
    /\ pc' = "options"
    /\ UNCHANGED <<event, bucket, outdir, invoked, request, posts, cp, options, idx,
                   installers, calls, tasks, wg, sema, crashed, out>>

\* where the main goroutine goes once the build loop has handled position i - 1
AfterBuild(i, built) ==
    IF i <= Len(request.Packages) THEN "build"
    ELSE IF Len(built) > 0 THEN "fanout" ELSE "wait"

OptionsRejectingEmpty ==
    /\ ~crashed
    /\ pc = "options"
    /\ IF Len(cp.secrets) = 0
       THEN /\ pc' = "panic"
            /\ crashed' = TRUE
            /\ UNCHANGED <<options, idx, out>>
       ELSE IF Len(request.Packages) = 0
       THEN /\ Return(respondError(<<"no packages requested">>))
            /\ UNCHANGED <<options, idx, crashed>>
       ELSE /\ options' = [EnrollSecret |-> cp.secrets[1], Identifier |-> "com.fleetdm.orbit"]
            /\ idx' = 1
            /\ pc' = AfterBuild(1, << >>)
            /\ UNCHANGED <<crashed, out>>
    /\ UNCHANGED <<event, bucket, outdir, scratch, invoked, request, posts, cp, mkdirs,
                   installers, calls, tasks, wg, sema>>

OptionsFromRequest ==
    /\ ~crashed
    /\ pc = "options"
    /\ IF Len(cp.secrets) = 0
       THEN /\ pc' = "panic"
            /\ crashed' = TRUE
            /\ UNCHANGED <<options, idx>>
       ELSE /\ options' = [EnrollSecret |-> request.EnrollSecret, Identifier |-> "com.fleetdm.orbit"]
            /\ idx' = 1
            /\ pc' = AfterBuild(1, << >>)
            /\ crashed' = crashed
    /\ UNCHANGED <<event, bucket, outdir, scratch, invoked, request, posts, cp, mkdirs,
                   installers, calls, tasks, wg, sema, out>>

\* options := packaging.Options{... team.Team.Secrets[0].Secret ...}:
\* indexing an empty Secrets slice panics
Options ==
    /\ ~crashed
    /\ pc = "options"
    /\ IF Len(cp.secrets) = 0
       THEN /\ pc' = "panic"
            /\ crashed' = TRUE
            /\ UNCHANGED <<options, idx>>
       ELSE /\ options' = [EnrollSecret |-> cp.secrets[1], Identifier |-> "com.fleetdm.orbit"]
            /\ idx' = 1
            /\ pc' = AfterBuild(1, << >>)
            /\ crashed' = crashed
    /\ UNCHANGED <<event, bucket, outdir, scratch, invoked, request, posts, cp, mkdirs,
                   installers, calls, tasks, wg, sema, out>>


\* one iteration of the build loop: the switch on packageType, the call of
\* buildPackage for a recognised tag, the early return or the append
BuildNoFailFast ==
    /\ ~crashed
    /\ pc = "build"
    /\ LET packageType == request.Packages[idx]
       IN  IF packageType \in Recognised
           THEN \E result \in BuilderResults(packageType, outdir) :
                  LET built == buildPackage(packageType, result)
                      grown == IF built.err # NoErr THEN installers
                               ELSE Append(installers, built.pkg)
                  IN  /\ calls' = Append(calls, [pos |-> idx, format |-> packageType,
                                                 options |-> options, result |-> result])
                      /\ installers' = grown
                      /\ idx' = IF AfterBuild(idx + 1, grown) = "build" THEN idx + 1 ELSE 1
                      /\ pc' = AfterBuild(idx + 1, grown)
                      /\ out' = out
           ELSE /\ idx' = IF AfterBuild(idx + 1, installers) = "build" THEN idx + 1 ELSE 1
                /\ pc' = AfterBuild(idx + 1, installers)
                /\ UNCHANGED <<calls, installers, out>>
    /\ UNCHANGED <<event, bucket, outdir, scratch, invoked, request, posts, cp, mkdirs, options,
                   tasks, wg, sema, crashed>>

BuildPrepending ==
    /\ ~crashed
    /\ pc = "build"
    /\ LET packageType == request.Packages[idx]
       IN  IF packageType \in Recognised
           THEN \E result \in BuilderResults(packageType, outdir) :
                  LET built == buildPackage(packageType, result)
                      grown == <<built.pkg>> \o installers
                  IN  /\ calls' = Append(calls, [pos |-> idx, format |-> packageType,
                                                 options |-> options, result |-> result])
                      /\ IF built.err # NoErr
                         THEN /\ Return(respondError(built.err))
                              /\ UNCHANGED <<installers, idx>>
                         ELSE /\ installers' = grown
                              /\ idx' = IF AfterBuild(idx + 1, grown) = "build"
                                        THEN idx + 1 ELSE 1
                              /\ pc' = AfterBuild(idx + 1, grown)
                              /\ out' = out
           ELSE /\ idx' = IF AfterBuild(idx + 1, installers) = "build" THEN idx + 1 ELSE 1
                /\ pc' = AfterBuild(idx + 1, installers)
                /\ UNCHANGED <<calls, installers, out>>
    /\ UNCHANGED <<event, bucket, outdir, scratch, invoked, request, posts, cp, mkdirs, options,
                   tasks, wg, sema, crashed>>

BuildRetrying ==
    /\ ~crashed
    /\ pc = "build"
    /\ LET packageType == request.Packages[idx]
       IN  IF packageType \in Recognised
           THEN \E result \in BuilderResults(packageType, outdir) :
                  LET built == buildPackage(packageType, result)
                      grown == Append(installers, built.pkg)
                      this == [pos |-> idx, format |-> packageType,
                               options |-> options, result |-> result]
                  IN  /\ calls' = IF built.err # NoErr THEN calls \o <<this, this>>
                                 ELSE Append(calls, this)
                      /\ IF built.err # NoErr
                         THEN /\ Return(respondError(built.err))
                              /\ UNCHANGED <<installers, idx>>
                         ELSE /\ installers' = grown
                              /\ idx' = IF AfterBuild(idx + 1, grown) = "build"
                                        THEN idx + 1 ELSE 1
                              /\ pc' = AfterBuild(idx + 1, grown)
                              /\ out' = out
           ELSE /\ idx' = IF AfterBuild(idx + 1, installers) = "build" THEN idx + 1 ELSE 1
                /\ pc' = AfterBuild(idx + 1, installers)
                /\ UNCHANGED <<calls, installers, out>>
    /\ UNCHANGED <<event, bucket, outdir, scratch, invoked, request, posts, cp, mkdirs, options,
                   tasks, wg, sema, crashed>>


BuildRejectingUnknown ==
    /\ ~crashed
    /\ pc = "build"
    /\ LET packageType == request.Packages[idx]
       IN  IF packageType \in Recognised
           THEN \E result \in BuilderResults(packageType, outdir) :
                  LET built == buildPackage(packageType, result)
                      grown == Append(installers, built.pkg)
                  IN  /\ calls' = Append(calls, [pos |-> idx, format |-> packageType,
                                                 options |-> options, result |-> result])
                      /\ IF built.err # NoErr
                         THEN /\ Return(respondError(built.err))
                              /\ UNCHANGED <<installers, idx>>
                         ELSE /\ installers' = grown
                              /\ idx' = IF AfterBuild(idx + 1, grown) = "build"
                                        THEN idx + 1 ELSE 1
                              /\ pc' = AfterBuild(idx + 1, grown)
                              /\ out' = out
           ELSE /\ Return(respondError(<<"unsupported package type", packageType>>))
                /\ UNCHANGED <<calls, installers, idx>>
    /\ UNCHANGED <<event, bucket, outdir, scratch, invoked, request, posts, cp, mkdirs, options,
                   tasks, wg, sema, crashed>>


Build ==
    /\ ~crashed
    /\ pc = "build"
    /\ LET packageType == request.Packages[idx]
       IN  IF packageType \in Recognised
           THEN \E result \in BuilderResults(packageType, outdir) :
                  LET built == buildPackage(packageType, result)
                      grown == Append(installers, built.pkg)
                  IN  /\ calls' = Append(calls, [pos |-> idx, format |-> packageType,
                                                 options |-> options, result |-> result])
                      /\ IF built.err # NoErr
                         THEN /\ Return(respondError(built.err))
                              /\ UNCHANGED <<installers, idx>>
                         ELSE /\ installers' = grown
                              /\ idx' = IF AfterBuild(idx + 1, grown) = "build"
                                        THEN idx + 1 ELSE 1
                              /\ pc' = AfterBuild(idx + 1, grown)
                              /\ out' = out
           ELSE /\ idx' = IF AfterBuild(idx + 1, installers) = "build" THEN idx + 1 ELSE 1
                /\ pc' = AfterBuild(idx + 1, installers)
                /\ UNCHANGED <<calls, installers, out>>
    /\ UNCHANGED <<event, bucket, outdir, scratch, invoked, request, posts, cp, mkdirs, options,
                   tasks, wg, sema, crashed>>


\* ------------------------------------------------------------- fan-out
\* i := i -- the copy of the loop variable the k-th goroutine closes over
CaptureShared(k) == installers[Len(installers)]

Capture(k) == installers[k]

\* a goroutine as the go statement leaves it: nothing of its body has run
NewTask(file) ==
    [pc |-> "add", i |-> file, stats |-> 0, puts |-> << >>, outcome |-> << >>]

\* one iteration of "for _, i := range installers { i := i; go func() {...}() }"
Spawn ==
    /\ ~crashed
    /\ pc = "fanout"
    /\ tasks' = Append(tasks, NewTask(Capture(idx)))
    /\ IF idx < Len(installers)
       THEN /\ idx' = idx + 1
            /\ pc' = pc
       ELSE /\ idx' = idx
            /\ pc' = "wait"
    /\ UNCHANGED <<event, bucket, outdir, scratch, invoked, request, posts, cp, mkdirs, options,
                   installers, calls, wg, sema, crashed, out>>

\* a panic in a goroutine nobody recovers ends the process
Crash == crashed' = TRUE

\* wg.Add(1), the first statement of the goroutine (sync.WaitGroup.Add: the
\* counter is raised atomically; a positive Add that finds a waiter and makes
\* the counter equal to its delta panics "Add called concurrently with Wait")
TaskAdd(k) ==
    /\ ~crashed
    /\ tasks[k].pc = "add"
    /\ wg' = [wg EXCEPT !.v = @ + 1]
    /\ IF wg.w # 0 /\ wg.v + 1 = 1
       THEN /\ Crash
            /\ tasks' = tasks
       ELSE /\ tasks' = [tasks EXCEPT ![k].pc = "stat"]
            /\ crashed' = crashed
    /\ UNCHANGED <<event, bucket, outdir, scratch, pc, invoked, request, posts, cp, mkdirs,
                   options, idx, installers, calls, sema, out>>

\* log "built", os.Stat(i), and on error the log line and the return
TaskStat(k) ==
    /\ ~crashed
    /\ tasks[k].pc = "stat"
    /\ \E ok \in BOOLEAN :
         tasks' = [tasks EXCEPT
                     ![k].stats = @ + 1,
                     ![k].outcome = IF ok THEN @
                                    ELSE Append(@, [kind |-> "error getting file info",
                                                    err |-> <<"no such file">>]),
                     ![k].pc = IF ok THEN "upload" ELSE "done"]
    /\ UNCHANGED <<event, bucket, outdir, scratch, pc, invoked, request, posts, cp, mkdirs,
                   options, idx, installers, calls, wg, sema, crashed, out>>

uploadArtifactNoBucketCheck(file, name, opened, stored) ==
    IF ~opened
    THEN [err |-> <<"open: no such file">>, puts |-> << >>]
    ELSE [err |-> IF stored THEN NoErr ELSE <<"s3: request failed">>,
          puts |-> << [Bucket |-> bucket, Key |-> ObjectKey(name, file)] >>]

\* uploadArtifact(file, name): the error it returns (NoErr on success) and
\* the PutObject calls it issues, for each way the open and the put can go
uploadArtifact(file, name, opened, stored) ==
    IF bucket = ""
    THEN [err |-> <<"bucket name cannot be empty">>, puts |-> << >>]
    ELSE IF ~opened
    THEN [err |-> <<"open: no such file">>, puts |-> << >>]
    ELSE [err |-> IF stored THEN NoErr ELSE <<"s3: request failed">>,
          puts |-> << [Bucket |-> bucket, Key |-> ObjectKey(name, file)] >>]

\* log "file info", uploadArtifact, and the log line of its outcome
TaskUpload(k) ==
    /\ ~crashed
    /\ tasks[k].pc = "upload"
    /\ \E opened \in BOOLEAN, stored \in BOOLEAN :
         LET up == uploadArtifact(tasks[k].i, request.TeamName, opened, stored)
         IN  tasks' = [tasks EXCEPT
                         ![k].puts = @ \o up.puts,
                         ![k].outcome =
                             Append(@, IF up.err # NoErr
                                       THEN [kind |-> "failed to upload to s3",
                                             err |-> up.err]
                                       ELSE [kind |-> "successfully uploaded to bucket",
                                             err |-> NoErr]),
                         ![k].pc = "done"]
    /\ UNCHANGED <<event, bucket, outdir, scratch, pc, invoked, request, posts, cp, mkdirs,
                   options, idx, installers, calls, wg, sema, crashed, out>>

\* the deferred wg.Done(), first half: Add(-1) lowers the counter; it is over
\* unless the counter reached zero with a waiter registered
TaskDone(k) ==
    /\ ~crashed
    /\ tasks[k].pc = "done"
    /\ wg' = [wg EXCEPT !.v = @ - 1]
    /\ tasks' = [tasks EXCEPT
                   ![k].pc = IF wg.v - 1 > 0 \/ wg.w = 0 THEN "finished" ELSE "release"]
    /\ UNCHANGED <<event, bucket, outdir, scratch, pc, invoked, request, posts, cp, mkdirs,
                   options, idx, installers, calls, sema, crashed, out>>

\* wg.Done(), second half: the state must still be (0, waiters), else it
\* panics "Add called concurrently with Wait"; it resets the state and
\* releases every waiter
TaskRelease(k) ==
    /\ ~crashed
    /\ tasks[k].pc = "release"
    /\ IF wg.v # 0
       THEN /\ Crash
            /\ UNCHANGED <<wg, sema, tasks>>
       ELSE /\ wg' = [v |-> 0, w |-> 0]
            /\ sema' = sema + wg.w
            /\ tasks' = [tasks EXCEPT ![k].pc = "finished"]
            /\ crashed' = crashed
    /\ UNCHANGED <<event, bucket, outdir, scratch, pc, invoked, request, posts, cp, mkdirs,
                   options, idx, installers, calls, out>>

InvokeResultEscalating ==
    IF \E k \in 1..Len(tasks) : tasks[k].outcome # << >> /\ tasks[k].outcome[1].err # NoErr
    THEN respondError(<<"upload failed">>)
    ELSE [response |-> HelloResponse, err |-> NoErr]

\* "return response, nil" after wg.Wait()
InvokeResult == [response |-> HelloResponse, err |-> NoErr]

\* wg.Wait(), up to the semaphore: it returns at once when the counter is
\* zero, else it registers as a waiter and sleeps
Wait ==
    /\ ~crashed
    /\ pc = "wait"
    /\ IF wg.v = 0
       THEN /\ Return(InvokeResult)
            /\ wg' = wg
       ELSE /\ wg' = [wg EXCEPT !.w = @ + 1]
            /\ pc' = "sleep"
            /\ out' = out
    /\ UNCHANGED <<event, bucket, outdir, scratch, invoked, request, posts, cp, mkdirs, options,
                   idx, installers, calls, tasks, sema, crashed>>

\* wg.Wait() woken by the semaphore: a state other than zero panics
\* "WaitGroup is reused before previous Wait has returned"
Wake ==
    /\ ~crashed
    /\ pc = "sleep"
    /\ sema > 0
    /\ sema' = sema - 1
    /\ IF wg # [v |-> 0, w |-> 0]
       THEN /\ Crash
            /\ pc' = "panic"
            /\ out' = out
       ELSE /\ Return(InvokeResult)
            /\ crashed' = crashed
    /\ UNCHANGED <<event, bucket, outdir, scratch, invoked, request, posts, cp, mkdirs, options,
                   idx, installers, calls, tasks, wg>>

Next ==
    \/ Parse
    \/ PostTeam
    \/ Mkdir
    \/ Options
    \/ Build
    \/ Spawn
    \/ Wait
    \/ Wake
    \/ \E k \in 1..Len(tasks) : TaskAdd(k)
    \/ \E k \in 1..Len(tasks) : TaskStat(k)
    \/ \E k \in 1..Len(tasks) : TaskUpload(k)
    \/ \E k \in 1..Len(tasks) : TaskDone(k)
    \/ \E k \in 1..Len(tasks) : TaskRelease(k)

Spec == Init /\ [][Next]_vars

\* the same program on requests whose team name and enroll secret vary
SpecWide == InitWide /\ [][Next]_vars


\* ------------------------------------------------------------- vocabulary of the claims
\* the team-creation call was made and failed in one of its three ways
ControlPlaneFailed ==
    posts > 0 /\ (cp.err # NoErr \/ cp.apiErr.set \/ cp.status # 200)

\* builder invocations that returned an error
FailedCalls == {k \in 1..Len(calls) : calls[k].result.err # NoErr}

BuildFailed == FailedCalls # {}

\* invoke has returned to handler
InvokeReturned == invoked /\ pc = "done"

\* the build loop has run to its end without a failure
BuildStageSucceeded ==
    /\ ~BuildFailed
    /\ \/ pc \in {"fanout", "wait", "sleep"}
       \/ InvokeReturned /\ ~ControlPlaneFailed
       \/ pc = "panic" /\ Len(cp.secrets) > 0

\* the fan-out loop has launched its last goroutine
FanOutDone ==
    /\ BuildStageSucceeded
    /\ pc # "fanout"

TaskFailed(k) ==
    tasks[k].outcome # << >> /\ tasks[k].outcome[1].err # NoErr

TaskSucceeded(k) ==
    tasks[k].outcome # << >> /\ tasks[k].outcome[1].err = NoErr

AllTasksFinished == \A k \in 1..Len(tasks) : tasks[k].pc = "finished"

\* ------------------------------------------------------------- C1
\* C1: when invoke has returned its response, every upload task launched for
\* the request has finished (none is still before its stat, its storage
\* write, its log line or its wg.Done).
C1_JoinBarrier ==
    InvokeReturned => AllTasksFinished

\* ------------------------------------------------------------- C2
\* C2: once a recognised format has failed to build, the request has ended
\* with an error and no upload task was launched; stats and storage writes
\* are made by upload tasks only, so none was made.
C2_NoUploadOnBuildError ==
    BuildFailed =>
        /\ pc = "done"
        /\ out.err # NoErr
        /\ Len(tasks) = 0

\* a build failed after an earlier format had been built
C2_Witness ==
    /\ BuildFailed
    /\ Len(installers) > 0
    /\ pc = "done"

\* ------------------------------------------------------------- C3
\* C3: no builder is invoked for a position after the position of a format
\* that failed to build.
C3_FailFast ==
    \A k \in FailedCalls :
        \A j \in 1..Len(calls) : calls[j].pos <= calls[k].pos

\* the first of two recognised formats failed and the request has ended
C3_Witness ==
    /\ Len(request.Packages) = 2
    /\ request.Packages[2] \in Recognised
    /\ \E k \in FailedCalls : calls[k].pos = 1
    /\ pc = "done"


\* ------------------------------------------------------------- C4
\* the paths the successful builder invocations returned, in call order
RECURSIVE PathsOf(_)
PathsOf(cs) ==
    IF cs = << >> THEN << >>
    ELSE IF Head(cs).result.err = NoErr
         THEN <<Head(cs).result.path>> \o PathsOf(Tail(cs))
         ELSE PathsOf(Tail(cs))

RecognisedPositions(n) ==
    {p \in 1..n : p <= Len(request.Packages) /\ request.Packages[p] \in Recognised}

\* positions of the request the build loop has dealt with
Processed ==
    IF pc = "build" THEN idx - 1
    ELSE IF BuildStageSucceeded THEN Len(request.Packages)
    ELSE IF BuildFailed THEN calls[Len(calls)].pos
    ELSE 0

\* C4: the artifact list is the sequence of paths returned by the successful
\* builds so far, builders are called in request order for exactly the
\* recognised positions processed so far, and when the loop ends without a
\* failure the list has one path per recognised format of the request.
C4_BuildOrder ==
    /\ installers = PathsOf(calls)
    /\ \A j, k \in 1..Len(calls) : j < k => calls[j].pos < calls[k].pos
    /\ \A k \in 1..Len(calls) : calls[k].format = request.Packages[calls[k].pos]
    /\ {calls[k].pos : k \in 1..Len(calls)} = RecognisedPositions(Processed)
    /\ BuildStageSucceeded =>
           Len(installers) = Cardinality(RecognisedPositions(Len(request.Packages)))

\* two different formats were built, the loop has ended
C4_Witness ==
    /\ pc = "fanout"
    /\ Len(installers) = 2
    /\ installers[1] # installers[2]
    /\ Len(tasks) = 0

\* ------------------------------------------------------------- C5
\* C5: the k-th task holds the k-th artifact path; no task logs more than one
\* outcome; a task past its upload step has logged exactly one; and once
\* the fan-out loop has ended and every task has finished there is one task,
\* and one outcome, per artifact.
C5_OneOutcomePerArtifact ==
    /\ Len(tasks) <= Len(installers)
    /\ \A k \in 1..Len(tasks) :
          /\ tasks[k].i = installers[k]
          /\ Len(tasks[k].outcome) <= 1
          /\ tasks[k].stats <= 1
          /\ tasks[k].pc \in {"done", "release", "finished"} => Len(tasks[k].outcome) = 1
          /\ tasks[k].pc \in {"add", "stat", "upload"} => Len(tasks[k].outcome) = 0
    /\ (FanOutDone /\ AllTasksFinished) =>
          /\ Len(tasks) = Len(installers)
          /\ \A k \in 1..Len(installers) : TaskFailed(k) \/ TaskSucceeded(k)

\* two different artifacts, both tasks finished, one uploaded and one failed
C5_Witness ==
    /\ FanOutDone
    /\ AllTasksFinished
    /\ Len(installers) = 2
    /\ installers[1] # installers[2]
    /\ TaskFailed(1)
    /\ TaskSucceeded(2)

\* ------------------------------------------------------------- C6
\* the task has done everything the claim asks of a sibling: its stat, and
\* when the stat succeeded the call of uploadArtifact
RanToUpload(k) ==
    /\ tasks[k].stats = 1
    /\ tasks[k].pc # "upload"

SiblingsServed ==
    \A a, b \in 1..Len(tasks) :
        (a # b /\ TaskFailed(a)) => RanToUpload(b)

\* C6: at the step in which invoke returns its success response, every task
\* whose sibling's task has failed has made its own stat and, when that
\* succeeded, has attempted its upload.
C6_SiblingIndependence ==
    [][(pc # "done" /\ pc' = "done" /\ invoked' /\ BuildStageSucceeded')
          => SiblingsServed']_vars

\* ------------------------------------------------------------- C7
\* C7: when invoke has returned after a successful control-plane call and
\* with no build failure, what handler returns is the 200 response and a
\* nil error, whatever the upload tasks logged.
C7_UploadErrorsNotFatal ==
    (InvokeReturned /\ ~ControlPlaneFailed /\ ~BuildFailed) =>
        out = [response |-> [StatusCode |-> 200, Body |-> <<"\"Hello from Lambda!\"">>],
               err |-> NoErr]

\* invoke returned although a stat and a storage write had failed
C7_Witness ==
    /\ InvokeReturned
    /\ \E a, b \in 1..Len(tasks) :
          /\ tasks[a].outcome # << >>
          /\ tasks[a].outcome[1].kind = "error getting file info"
          /\ tasks[b].outcome # << >>
          /\ tasks[b].outcome[1].err = <<"s3: request failed">>
    /\ out.response.StatusCode = 200

\* ------------------------------------------------------------- C8
\* C8: after a failed team-creation call (transport error, API error or a
\* status other than 200) the request has ended with an error, and no
\* Mkdir, no builder invocation and no upload task has happened.
C8_ControlPlaneAborts ==
    ControlPlaneFailed =>
        /\ pc = "done"
        /\ out.err # NoErr
        /\ mkdirs = 0
        /\ calls = << >>
        /\ Len(tasks) = 0

\* the control plane answered 201 without an error payload, for a request
\* that asks for a package
C8_Witness ==
    /\ posts = 1
    /\ cp.err = NoErr
    /\ ~cp.apiErr.set
    /\ cp.status = 201
    /\ \E p \in 1..Len(request.Packages) : request.Packages[p] \in Recognised
    /\ pc = "done"

\* ------------------------------------------------------------- C9
FatalError == ~event.wellFormed \/ ControlPlaneFailed \/ BuildFailed

\* C9: when handler has returned, a fatal error (parse, control plane,
\* build) has given status 500, the body {"error": <message of the error>}
\* and a non-nil error; and otherwise the 200 response with a nil error.
C9_ErrorResponse ==
    pc = "done" =>
        IF FatalError
        THEN /\ out.response.StatusCode = 500
             /\ out.err # NoErr
             /\ out.response.Body = <<"{", "\"error\"", ":">> \o out.err \o <<"}">>
             /\ ~event.wellFormed =>
                    out.err[1] = "failed to parse generate installer request"
             /\ BuildFailed =>
                    /\ out.err[1] = "failed to package"
                    /\ out.err[2] = calls[Len(calls)].format
        ELSE /\ out.response.StatusCode = 200
             /\ out.err = NoErr

\* a build error has been answered
C9_Witness ==
    /\ pc = "done"
    /\ BuildFailed
    /\ out.response.StatusCode = 500

\* ------------------------------------------------------------- C10
\* C10: for a malformed payload invoke is never called: no control-plane
\* call, no Mkdir, no build, no upload task; and handler ends with the
\* error response.
C10_ParseErrorAborts ==
    ~event.wellFormed =>
        /\ ~invoked
        /\ posts = 0
        /\ mkdirs = 0
        /\ calls = << >>
        /\ Len(tasks) = 0
        /\ pc \in {"parse", "done"}
        /\ pc = "done" => (out.response.StatusCode = 500 /\ out.err # NoErr)

\* the malformed payload has been answered
C10_Witness ==
    /\ ~event.wellFormed
    /\ pc = "done"
    /\ out.response.StatusCode = 500


\* ------------------------------------------------------------- C11
\* how often tag f occurs in the first n positions of the request
RECURSIVE Occurrences(_, _)
Occurrences(f, n) ==
    IF n = 0 THEN 0
    ELSE Occurrences(f, n - 1) + (IF request.Packages[n] = f THEN 1 ELSE 0)

CallsOf(f) == {k \in 1..Len(calls) : calls[k].format = f}

\* C11 as stated: no two builder invocations of one request are of the same
\* builder.
C11_BuilderAtMostOnce ==
    \A j, k \in 1..Len(calls) : j # k => calls[j].format # calls[k].format

\* C11 amended: each position of the format list leads to at most one
\* builder invocation, so a builder is invoked at most as often as its tag
\* occurs in the list (twice for a tag listed twice).
C11_OncePerPosition ==
    /\ \A j, k \in 1..Len(calls) : j # k => calls[j].pos # calls[k].pos
    /\ \A f \in Recognised :
          Cardinality(CallsOf(f)) <= Occurrences(f, Len(request.Packages))

\* a tag listed twice has been built twice
C11_Witness ==
    /\ Len(calls) = 2
    /\ calls[1].format = calls[2].format
    /\ calls[1].pos = 1
    /\ calls[2].pos = 2
    /\ installers = <<calls[1].result.path, calls[2].result.path>>


\* ------------------------------------------------------------- C12
\* the build loop is at a tag the switch has no case for
AtUnrecognised ==
    /\ ~crashed
    /\ pc = "build"
    /\ request.Packages[idx] \notin Recognised

\* C12: the step of the build loop at an unrecognised tag invokes no
\* builder, adds no artifact, returns nothing and only moves to the next
\* position (or past the loop); and at all times the builders invoked are
\* exactly those of the recognised positions dealt with so far, so the tags
\* around an unrecognised one are built as if it were not there.
C12_UnrecognisedSkipped ==
    /\ [](/\ \A k \in 1..Len(calls) : request.Packages[calls[k].pos] \in Recognised
          /\ {calls[k].pos : k \in 1..Len(calls)} = RecognisedPositions(Processed)
          /\ (pc = "done" /\ out.err # NoErr) => FatalError)
    /\ [][AtUnrecognised =>
             /\ calls' = calls
             /\ installers' = installers
             /\ out' = out
             /\ crashed' = crashed
             /\ \/ pc' = "build" /\ idx' = idx + 1
                \/ pc' \in {"fanout", "wait"} /\ idx = Len(request.Packages)]_vars

\* an unrecognised tag was passed over and the tag after it built
C12_Witness ==
    /\ request.Packages = <<"exe", "deb">>
    /\ Len(calls) = 1
    /\ calls[1].pos = 2
    /\ Len(installers) = 1
    /\ pc = "fanout"


\* ------------------------------------------------------------- C13
EmptyRequest == event.wellFormed /\ event.request.Packages = << >>

\* C13: for a request with an empty format list no builder is invoked, the
\* artifact list stays empty, no upload task is launched, the main goroutine
\* never enters the build loop, the fan-out loop or the WaitGroup's sleep,
\* and after a successful control-plane call invoke returns the 200
\* response with a nil error.
C13_EmptyList ==
    EmptyRequest =>
        /\ calls = << >>
        /\ installers = << >>
        /\ Len(tasks) = 0
        /\ pc \notin {"build", "fanout", "sleep"}
        /\ (pc = "done" /\ ~ControlPlaneFailed) =>
               /\ out.err = NoErr
               /\ out.response.StatusCode = 200

\* the empty request has been answered after a successful team creation
C13_Witness ==
    /\ EmptyRequest
    /\ posts = 1
    /\ ~ControlPlaneFailed
    /\ mkdirs = 1
    /\ pc = "done"
    /\ out.response.StatusCode = 200


\* ------------------------------------------------------------- C14
\* filepath.Base of a path
Basename(file) == file[Len(file)]

\* every storage write issued so far, with the task that issued it
Writes ==
    UNION {{<<k, n>> : n \in 1..Len(tasks[k].puts)} : k \in 1..Len(tasks)}

\* C14 as stated: the key of every storage write is the tenant name, a
\* slash and the basename of the artifact path.
C14_KeyTenantBasename ==
    \A w \in Writes :
        tasks[w[1]].puts[w[2]].Key
            = <<request.TeamName, "/", Basename(installers[w[1]])>>

\* C14 amended: the key of every storage write is the literal "teamName=",
\* the tenant name, a slash and the whole artifact path as the builder
\* returned it (its directories included).
C14_KeyTeamNamePath ==
    \A w \in Writes :
        LET key  == tasks[w[1]].puts[w[2]].Key
            file == installers[w[1]]
        IN  /\ Len(key) = 3 + Len(file)
            /\ key[1] = "teamName="
            /\ key[2] = event.request.TeamName
            /\ key[3] = "/"
            /\ SubSeq(key, 4, Len(key)) = file

\* a package in a subdirectory has been written for the second tenant
C14_Witness ==
    /\ event.request.TeamName = "t2"
    /\ \E w \in Writes :
          /\ Len(installers[w[1]]) = 2
          /\ tasks[w[1]].puts[w[2]].Key[2] = "t2"
          /\ TaskSucceeded(w[1])


\* ------------------------------------------------------------- C15
Elements(seq) == {seq[n] : n \in 1..Len(seq)}

\* C15: the options every builder was invoked with carry the first secret
\* of the team record the control plane returned; when the request's
\* enroll_secret is not a secret of that record it appears neither in any
\* builder invocation nor in the response.
C15_SecretFromTeam ==
    /\ \A k \in 1..Len(calls) :
          /\ Len(cp.secrets) > 0
          /\ calls[k].options.EnrollSecret = cp.secrets[1]
    /\ event.request.EnrollSecret \notin Elements(cp.secrets) =>
          /\ \A k \in 1..Len(calls) :
                calls[k].options.EnrollSecret # event.request.EnrollSecret
          /\ event.request.EnrollSecret \notin Elements(out.response.Body)

\* a builder ran for a request whose enroll_secret is not the team's
C15_Witness ==
    /\ event.request.EnrollSecret = "test123"
    /\ Len(calls) = 1
    /\ calls[1].result.err = NoErr
    /\ calls[1].options.EnrollSecret = "s1"
    /\ cp.secrets = <<"s1", "s2">>


\* ------------------------------------------------------------- C16
\* C16: once a builder has been invoked the scratch directory /tmp/build
\* exists, whatever os.Mkdir returned.
C16_ScratchBeforeBuild ==
    calls # << >> => scratch = "present"


\* ------------------------------------------------------------- C17
\* the paths successful builder invocations of this request returned
BuiltPaths ==
    {calls[j].result.path : j \in {n \in 1..Len(calls) : calls[n].result.err = NoErr}}

\* C17: while an upload task exists no build has failed, the main goroutine
\* is past the build loop, a builder was invoked for every recognised
\* position of the request, and the path the task holds is one a
\* successful builder invocation returned.
C17_UploadsWereBuilt ==
    Len(tasks) > 0 =>
        /\ ~BuildFailed
        /\ pc \in {"fanout", "wait", "sleep", "done", "panic"}
        /\ {calls[k].pos : k \in 1..Len(calls)}
               = RecognisedPositions(Len(request.Packages))
        /\ \A k \in 1..Len(tasks) : tasks[k].i \in BuiltPaths

\* two artifacts built, both tasks past their stat
C17_Witness ==
    /\ Len(tasks) = 2
    /\ tasks[1].i # tasks[2].i
    /\ tasks[1].stats = 1
    /\ tasks[2].stats = 1
    /\ Len(tasks[2].puts) = 1


\* ------------------------------------------------------------- C18
\* the error the task logged, NoErr when it logged none
LoggedError(k) ==
    IF tasks[k].outcome = << >> THEN NoErr ELSE tasks[k].outcome[1].err

\* C18: no task issues more than one storage write; a task that issued one
\* had made its one stat successfully, the bucket name is not empty, the
\* write went to that bucket, and the only error it can have logged is the
\* storage service's; a task whose stat failed, whose bucket name is empty
\* or whose file could not be opened issued none.
C18_OneWriteAfterChecks ==
    \A k \in 1..Len(tasks) :
        /\ Len(tasks[k].puts) <= 1
        /\ tasks[k].puts # << >> =>
              /\ tasks[k].stats = 1
              /\ tasks[k].pc \in {"done", "release", "finished"}
              /\ bucket # ""
              /\ tasks[k].puts[1].Bucket = bucket
              /\ LoggedError(k) \in {NoErr, <<"s3: request failed">>}
        /\ bucket = "" => tasks[k].puts = << >>
        /\ LoggedError(k) \in {<<"no such file">>, <<"bucket name cannot be empty">>,
                               <<"open: no such file">>}
              => tasks[k].puts = << >>

\* one task wrote its artifact, the stat of the other failed
C18_Witness ==
    /\ Len(tasks) = 2
    /\ Len(tasks[1].puts) = 1
    /\ TaskSucceeded(1)
    /\ LoggedError(2) = <<"no such file">>
    /\ tasks[2].puts = << >>
    /\ AllTasksFinished


\* ------------------------------------------------------------- C19
\* the main goroutine is about to call buildPackage
AtRecognised ==
    /\ ~crashed
    /\ pc = "build"
    /\ request.Packages[idx] \in Recognised

\* C19: the step that calls buildPackage invokes the builder of the tag
\* exactly once, with the options of the request; when the builder succeeds
\* its path is what reaches the artifact list and no error is returned;
\* when it fails nothing reaches the list and the error returned is "failed
\* to package", the tag, and the builder's error; no other step invokes a
\* builder.
C19_SingleAttempt ==
    [][IF AtRecognised
       THEN /\ Len(calls') = Len(calls) + 1
            /\ SubSeq(calls', 1, Len(calls)) = calls
            /\ LET call == calls'[Len(calls')]
               IN  /\ call.pos = idx
                   /\ call.format = request.Packages[idx]
                   /\ call.options = options
                   /\ IF call.result.err = NoErr
                      THEN /\ installers' = Append(installers, call.result.path)
                           /\ out' = out
                           /\ pc' # "done"
                      ELSE /\ installers' = installers
                           /\ buildPackage(call.format, call.result).pkg = << >>
                           /\ pc' = "done"
                           /\ out'.err = <<"failed to package", call.format>>
                                             \o call.result.err
       ELSE calls' = calls]_vars

\* a failed build has been reported with its tag
C19_Witness ==
    /\ Len(calls) = 2
    /\ calls[1].result.err = NoErr
    /\ calls[2].result.err # NoErr
    /\ pc = "done"
    /\ out.err = <<"failed to package", calls[2].format, "exit status 1">>
    /\ Len(installers) = 1


\* ------------------------------------------------------------- C20
\* nothing of the process can take a step any more
Halted == crashed \/ ~ENABLED Next

\* C20: the invocation never ends without a response: whenever the process
\* can take no further step, handler has returned, no panic has ended the
\* process, and the response is the 200 or a 500 response.
C20_EndsWithResponse ==
    Halted =>
        /\ ~crashed
        /\ pc = "done"
        /\ out.response.StatusCode \in {200, 500}

====
